---- MODULE Spec2Model ----
(***************************************************************************)
(* Model of the event reaction pipeline of the Telegram channel monitor    *)
(* (src/telegram_monitor.py): one coroutine of _handle_new_message per      *)
(* delivered update, interleaved at its await points, sharing the dedup     *)
(* set processed_messages and the sliding-window RateLimiter.               *)
(* Time is in whole seconds.                                                *)
(***************************************************************************)
EXTENDS Integers, Sequences, FiniteSets, Bags

\* ---------------------------------------------------------------- bounds
NumHandlers == 2      \* handler coroutines in flight at the same time
MaxDeliveries == 3    \* updates delivered in one run
Horizon == 1          \* one-second clock steps taken freely inside an hour
MaxJumps == 1         \* whole-window clock steps
StartTime == 1000     \* time.time() when monitoring starts

\* ------------------------------------------------------ program constants
StaleSeconds == 300
TimeWindow == 3600

\* ----------------------------------------------------------------- inputs
\* ids of the messages posted in the channel
MsgIds == {1, 2}
\* configured max_comments_per_hour
Capacities == {1, 2}
\* configured comment_delay_min and comment_delay_max
DelayMins == {1}
DelayMaxs == {2}
MeId == 0
OtherId == 1
SenderIds == {MeId, OtherId}
\* age of a delivered message at the moment of delivery
Ages == {StaleSeconds - 1, StaleSeconds + 1}
\* clock advances between two steps of the event loop
TickSteps == {1, TimeWindow}
\* e.seconds carried by a FloodWaitError
FloodSeconds == {2}

Outcomes == {"Sent", "FloodWaitError", "ChatWriteForbiddenError",
             "UserRestrictedError", "MessageNotModifiedError", "Exception"}

NoMsg == [id |-> 0, sender_id |-> OtherId, date |-> 0]

VARIABLES
  now,          \* time.time()
  channel,      \* the messages posted in the monitored channel, by id
  cfg,          \* the Config object handed to TelegramMonitor.__init__
  processed,    \* self.processed_messages
  rl_actions,   \* the RateLimiter's action records, oldest first
  tasks,        \* the suspended _handle_new_message coroutines, a bag of
                \* [pc, msg, wake]: the await it is at, its event.message,
                \* and the time its pending asyncio.sleep ends
  delivered,    \* number of updates delivered so far
  attempts,     \* per message id, the number of _post_comment calls
  sent,         \* per message id, the number of replies send_message transmitted
  sent_times,   \* the times at which the replies of the last window were transmitted
  denied,       \* ids of the events skipped at "Rate limit exceeded"
  last          \* the handler step taken last: [op, id, age]

vars == <<now, channel, cfg, processed, rl_actions, tasks, delivered, attempts, sent, sent_times,
          denied, last>>

\* ------------------------------------------------------------- Config
\* an Optional value is <<>> for None and <<v>> for the value v
\* `not self.api_id`: None and 0 are false
truthy_int(v) == v # <<>> /\ v[1] # 0

\* `not self.api_hash`, `not self.target_channel`: None and "" are false
truthy_str(v) == v # <<>> /\ v[1] # ""

\* `not self.comment_messages`: the empty list is false
truthy_list(l) == Len(l) > 0

\* mutant: a maximum equal to the minimum is rejected
validate_errors_strict_max(c) ==
  (IF ~truthy_int(c.api_id) THEN <<"API ID is required">> ELSE <<>>)
  \o (IF ~truthy_str(c.api_hash) THEN <<"API Hash is required">> ELSE <<>>)
  \o (IF ~truthy_str(c.target_channel) THEN <<"Target channel is required">> ELSE <<>>)
  \o (IF ~truthy_list(c.comment_messages)
        THEN <<"At least one comment message is required">> ELSE <<>>)
  \o (IF c.comment_delay_min < 1
        THEN <<"Comment delay minimum must be at least 1 second">> ELSE <<>>)
  \o (IF c.comment_delay_max <= c.comment_delay_min
        THEN <<"Comment delay maximum must be greater than minimum">> ELSE <<>>)
  \o (IF c.max_comments_per_hour < 1
        THEN <<"Max comments per hour must be at least 1">> ELSE <<>>)

\* Config.validate, lines 175-195: the list of errors it collects
validate_errors(c) ==
  (IF ~truthy_int(c.api_id) THEN <<"API ID is required">> ELSE <<>>)
  \o (IF ~truthy_str(c.api_hash) THEN <<"API Hash is required">> ELSE <<>>)
  \o (IF ~truthy_str(c.target_channel) THEN <<"Target channel is required">> ELSE <<>>)
  \o (IF ~truthy_list(c.comment_messages)
        THEN <<"At least one comment message is required">> ELSE <<>>)
  \o (IF c.comment_delay_min < 1
        THEN <<"Comment delay minimum must be at least 1 second">> ELSE <<>>)
  \o (IF c.comment_delay_max < c.comment_delay_min
        THEN <<"Comment delay maximum must be greater than minimum">> ELSE <<>>)
  \o (IF c.max_comments_per_hour < 1
        THEN <<"Max comments per hour must be at least 1">> ELSE <<>>)

\* Config.validate, lines 197-202: False when any error was collected
validate(c) == validate_errors(c) = <<>>

\* the configurations the monitor runs with: those Config.validate accepts
Configs ==
  { c \in [api_id : {<<12345>>},
           api_hash : {<<"hash">>},
           target_channel : {<<"channel">>},
           comment_messages : {<<"Thanks for sharing!">>},
           max_comments_per_hour : Capacities,
           comment_delay_min : DelayMins,
           comment_delay_max : DelayMaxs] : validate(c) }

\* the configurations Config.validate is asked about
CandidateConfigs ==
  [api_id : {<<>>, <<0>>, <<12345>>},
   api_hash : {<<>>, <<"">>, <<"hash">>},
   target_channel : {<<>>, <<"">>, <<"channel">>},
   comment_messages : {<<>>, <<"Thanks for sharing!">>},
   max_comments_per_hour : 0..2,
   comment_delay_min : 0..2,
   comment_delay_max : 0..2]

\* ---------------------------------------------------------- RateLimiter
\* a record counts while it lies in the trailing window [t - time_window, t]
InWindow(ts, t) == ts >= t - TimeWindow /\ ts <= t

cleanup_old_actions(actions, t) == SelectSeq(actions, LAMBDA ts : InWindow(ts, t))

can_perform_action(actions, t, max_actions) ==
  Len(cleanup_old_actions(actions, t)) < max_actions

record_action(actions, t) == Append(cleanup_old_actions(actions, t), t)

\* ------------------------------------------------------------ the handler
\* mutant: the membership test is missing
already_processed_unchecked(p, id) == FALSE

\* line 165: message.id in self.processed_messages
already_processed(p, id) == id \in p

\* mutant: the ledger is replaced instead of extended
mark_processed_forgetting(p, id) == {id}

\* lines 174, 182, 194: self.processed_messages.add(message.id)
mark_processed(p, id) == p \cup {id}

\* mutant: an event of age exactly 300 s counts as stale
is_stale_inclusive(date, t) == date <= t - StaleSeconds

\* line 173: message.date.timestamp() < (time.time() - 300)
is_stale(date, t) == date < t - StaleSeconds

\* mutant: the lower bound of the draw is 0
randint_from_zero(lo, hi) == 0..hi

\* line 186: random.randint(a, b) draws an integer N with a <= N <= b
randint(lo, hi) == lo..hi

\* mutant: the coroutine goes on without waiting for the sleep to end
sleep_done_at_once(wake, t) == TRUE

\* lines 188, 219: `await asyncio.sleep(...)` returns once the time asked for
\* has passed
sleep_done(wake, t) == t >= wake

\* mutant: the rate limiter is consulted before the staleness test
decide_rate_first(m, t, actions, max_actions) ==
  IF m.sender_id = MeId THEN "self"
  ELSE IF ~can_perform_action(actions, t, max_actions) THEN "denied"
  ELSE IF is_stale(m.date, t) THEN "stale"
  ELSE "admitted"

\* mutant: the self check comes after the staleness and rate-limit tests
decide_self_last(m, t, actions, max_actions) ==
  IF is_stale(m.date, t) THEN "stale"
  ELSE IF ~can_perform_action(actions, t, max_actions) THEN "denied"
  ELSE IF m.sender_id = MeId THEN "self"
  ELSE "admitted"

\* mutant: the rate limiter is not consulted
decide_unlimited(m, t, actions, max_actions) ==
  IF m.sender_id = MeId THEN "self"
  ELSE IF is_stale(m.date, t) THEN "stale"
  ELSE "admitted"

\* the branch taken by the code between the get_me() await and the sleep
decide(m, t, actions, max_actions) ==
  IF m.sender_id = MeId THEN "self"
  ELSE IF is_stale(m.date, t) THEN "stale"
  ELSE IF ~can_perform_action(actions, t, max_actions) THEN "denied"
  ELSE "admitted"

\* mutant: the event is marked and recorded only after a reply was sent
after_post_sent_only(p, actions, id, t, o) ==
  IF o = "Sent"
    THEN [processed |-> mark_processed(p, id), actions |-> record_action(actions, t)]
    ELSE [processed |-> p, actions |-> actions]

\* what the handler does once _post_comment has returned with outcome o
after_post(p, actions, id, t, o) ==
  [processed |-> mark_processed(p, id), actions |-> record_action(actions, t)]

Task(p, m, w) == [pc |-> p, msg |-> m, wake |-> w]

Running == BagToSet(tasks)

\* the coroutine t moves on to u
Resume(t, u) == (tasks (-) SetToBag({t})) (+) SetToBag({u})

\* the coroutine t returns
Return(t) == tasks (-) SetToBag({t})

Step(op, id, age) == [op |-> op, id |-> id, age |-> age]

Init ==
  /\ now = StartTime
  /\ channel = [i \in MsgIds |-> NoMsg]
  /\ cfg \in Configs
  /\ processed = {}
  /\ rl_actions = <<>>
  /\ tasks = EmptyBag
  /\ delivered = 0
  /\ attempts = [i \in MsgIds |-> 0]
  /\ sent = [i \in MsgIds |-> 0]
  /\ sent_times = <<>>
  /\ denied = {}
  /\ last = Step("none", 0, 0)

\* the clock advances: by one second (freely up to Horizon seconds into the
\* hour, and beyond that while some sleep is still pending), or by a whole
\* window while no handler is in flight
Tick(d) ==
  /\ \/ d = 1 /\ (now - StartTime) % TimeWindow < Horizon
     \/ d = 1 /\ \E t \in Running : t.pc \in {"sleep", "flood_sleep"} /\ t.wake > now
     \/ d = TimeWindow /\ (now - StartTime) \div TimeWindow < MaxJumps /\ tasks = EmptyBag
  /\ now' = now + d
  /\ last' = Step("tick", 0, 0)
  /\ UNCHANGED <<channel, cfg, processed, rl_actions, tasks, delivered, attempts, sent, sent_times, denied>>

\* mutant: an update is delivered only while no handler is in flight, as if a
\* pending sleep held up the whole client
Receive_when_idle(id, sender, age) ==
  LET m == IF channel[id] = NoMsg
             THEN [id |-> id, sender_id |-> sender, date |-> now - age]
             ELSE channel[id] IN
  /\ tasks = EmptyBag
  /\ delivered < MaxDeliveries
  /\ delivered' = delivered + 1
  /\ channel' = [channel EXCEPT ![id] = m]
  /\ IF already_processed(processed, id)
       THEN /\ last' = Step("dup", id, 0)
            /\ tasks' = tasks
       ELSE /\ tasks' = tasks (+) SetToBag({Task("get_me", m, 0)})
            /\ last' = Step("received", id, 0)
  /\ UNCHANGED <<now, cfg, processed, rl_actions, attempts, sent, sent_times, denied>>

\* an update is delivered for message id, a new post of the given sender
\* and age or a post delivered before: a new handler coroutine runs up to
\* `await get_me()`, or returns at once when the id is in processed_messages
Receive(id, sender, age) ==
  LET m == IF channel[id] = NoMsg
             THEN [id |-> id, sender_id |-> sender, date |-> now - age]
             ELSE channel[id] IN
  /\ delivered < MaxDeliveries
  /\ delivered' = delivered + 1
  /\ channel' = [channel EXCEPT ![id] = m]
  /\ IF already_processed(processed, id)
       THEN /\ last' = Step("dup", id, 0)
            /\ tasks' = tasks
       ELSE /\ BagCardinality(tasks) < NumHandlers
            /\ tasks' = tasks (+) SetToBag({Task("get_me", m, 0)})
            /\ last' = Step("received", id, 0)
  /\ UNCHANGED <<now, cfg, processed, rl_actions, attempts, sent, sent_times, denied>>

\* get_me() has answered: self check, staleness check, rate-limit check, delay
AfterGetMe(t) ==
  /\ t.pc = "get_me"
  /\ LET d == decide(t.msg, now, rl_actions, cfg.max_comments_per_hour) IN
     /\ last' = Step(d, t.msg.id, now - t.msg.date)
     /\ processed' = IF d \in {"stale", "denied"}
                       THEN mark_processed(processed, t.msg.id)
                       ELSE processed
     /\ IF d = "admitted"
          THEN \E delay \in randint(cfg.comment_delay_min, cfg.comment_delay_max) :
                 tasks' = Resume(t, Task("sleep", t.msg, now + delay))
          ELSE tasks' = Return(t)
     /\ denied' = IF d = "denied" THEN denied \cup {t.msg.id} ELSE denied
  /\ UNCHANGED <<now, channel, cfg, rl_actions, delivered, attempts, sent, sent_times>>

\* get_me() raises: `except Exception` at the end of the handler logs and returns
GetMeFails(t) ==
  /\ t.pc = "get_me"
  /\ tasks' = Return(t)
  /\ last' = Step("error", t.msg.id, 0)
  /\ UNCHANGED <<now, channel, cfg, processed, rl_actions, delivered, attempts, sent, sent_times, denied>>

\* the delay has elapsed: _post_comment is called and awaits send_message
AfterSleep(t) ==
  /\ t.pc = "sleep"
  /\ sleep_done(t.wake, now)
  /\ tasks' = Resume(t, Task("sending", t.msg, 0))
  /\ attempts' = [attempts EXCEPT ![t.msg.id] = @ + 1]
  /\ last' = Step("dispatch", t.msg.id, 0)
  /\ UNCHANGED <<now, channel, cfg, processed, rl_actions, delivered, sent, sent_times, denied>>

\* _post_comment has returned with outcome o: lines 193-195, then the
\* coroutine is gone
Finish(t, o) ==
  /\ LET r == after_post(processed, rl_actions, t.msg.id, now, o) IN
     /\ processed' = r.processed
     /\ rl_actions' = r.actions
  /\ tasks' = Return(t)

\* mutant: the FloodWaitError branch does not pause
flood_wake_no_pause(t, secs) == t

\* line 219: `await asyncio.sleep(e.seconds)` ends e.seconds after the error
flood_wake(t, secs) == t + secs

\* mutant: _post_comment has no `except Exception` clause
caught_known_only(o) ==
  o \in {"FloodWaitError", "ChatWriteForbiddenError", "UserRestrictedError",
         "MessageNotModifiedError"}

\* lines 216-231: the exceptions of send_message the except clauses of
\* _post_comment catch
caught(o) ==
  o \in {"FloodWaitError", "ChatWriteForbiddenError", "UserRestrictedError",
         "MessageNotModifiedError", "Exception"}

\* send_message returns or raises; an exception _post_comment does not catch
\* reaches the `except Exception` of the handler, which logs and returns
SendResult(t, o) ==
  /\ t.pc = "sending"
  /\ IF o # "Sent" /\ ~caught(o)
       THEN /\ last' = Step("error", t.msg.id, 0)
            /\ tasks' = Return(t)
            /\ UNCHANGED <<processed, rl_actions>>
       ELSE /\ last' = Step(o, t.msg.id, 0)
            /\ IF o = "FloodWaitError"
                 THEN /\ \E secs \in FloodSeconds :
                           tasks' = Resume(t, Task("flood_sleep", t.msg, flood_wake(now, secs)))
                      /\ UNCHANGED <<processed, rl_actions>>
                 ELSE Finish(t, o)
  /\ sent' = IF o = "Sent" THEN [sent EXCEPT ![t.msg.id] = @ + 1] ELSE sent
  /\ sent_times' = IF o = "Sent"
                      THEN Append(SelectSeq(sent_times, LAMBDA ts : ts >= now - TimeWindow), now)
                      ELSE sent_times
  /\ UNCHANGED <<now, channel, cfg, delivered, attempts, denied>>

\* mutant: after the pause send_message is called again for the same event
AfterFloodSleep_retrying(t) ==
  /\ t.pc = "flood_sleep"
  /\ sleep_done(t.wake, now)
  /\ last' = Step("flood_done", t.msg.id, 0)
  /\ tasks' = Resume(t, Task("sending", t.msg, 0))
  /\ UNCHANGED <<now, channel, cfg, processed, rl_actions, delivered, attempts, sent, sent_times, denied>>

\* the pause of the FloodWaitError branch has elapsed
AfterFloodSleep(t) ==
  /\ t.pc = "flood_sleep"
  /\ sleep_done(t.wake, now)
  /\ last' = Step("flood_done", t.msg.id, 0)
  /\ Finish(t, "FloodWaitError")
  /\ UNCHANGED <<now, channel, cfg, delivered, attempts, sent, sent_times, denied>>

Next ==
  \/ \E d \in TickSteps : Tick(d)
  \/ \E id \in MsgIds, s \in SenderIds, a \in Ages : Receive(id, s, a)
  \/ \E t \in Running : AfterGetMe(t)
  \/ \E t \in Running : GetMeFails(t)
  \/ \E t \in Running : AfterSleep(t)
  \/ \E t \in Running, o \in Outcomes : SendResult(t, o)
  \/ \E t \in Running : AfterFloodSleep(t)

Spec == Init /\ [][Next]_vars

\* events handled strictly one at a time: an update is delivered only when
\* no handler is in flight
SerialNext ==
  \/ \E d \in TickSteps : Tick(d)
  \/ \E id \in MsgIds, s \in SenderIds, a \in Ages :
       tasks = EmptyBag /\ Receive(id, s, a)
  \/ \E t \in Running : AfterGetMe(t)
  \/ \E t \in Running : GetMeFails(t)
  \/ \E t \in Running : AfterSleep(t)
  \/ \E t \in Running, o \in Outcomes : SendResult(t, o)
  \/ \E t \in Running : AfterFloodSleep(t)

SerialSpec == Init /\ [][SerialNext]_vars

\* within one window of the limiter, an update arrives while no handler is in
\* flight, or while the one handler in flight is suspended in its delay or in
\* a FloodWaitError pause
Suspended ==
  /\ BagCardinality(tasks) <= 1
  /\ \A t \in Running : t.pc \in {"sleep", "flood_sleep"}

OverlapNext ==
  \/ Tick(1)
  \/ \E id \in MsgIds, s \in SenderIds, a \in Ages :
       Suspended /\ Receive(id, s, a)
  \/ \E t \in Running : AfterGetMe(t)
  \/ \E t \in Running : GetMeFails(t)
  \/ \E t \in Running : AfterSleep(t)
  \/ \E t \in Running, o \in Outcomes : SendResult(t, o)
  \/ \E t \in Running : AfterFloodSleep(t)

OverlapSpec == Init /\ [][OverlapNext]_vars

\* the event loop resumes every coroutine that is ready, the transport
\* answers every send_message, and the clock keeps running
Fairness ==
  /\ WF_vars(Tick(1))
  /\ WF_vars(\E t \in Running : AfterSleep(t))
  /\ WF_vars(\E t \in Running, o \in Outcomes : SendResult(t, o))
  /\ WF_vars(\E t \in Running : AfterFloodSleep(t))

FairSpec == SerialSpec /\ Fairness

\* --------------------------------------------- the RateLimiter on its own
\* the limiter used as its contract asks: record_action() is called only for
\* an action that can_perform_action() has just admitted, can_perform_action()
\* at any time, at non-decreasing times
LimiterRecord ==
  /\ can_perform_action(rl_actions, now, cfg.max_comments_per_hour)
  /\ rl_actions' = record_action(rl_actions, now)
  /\ last' = Step("record", 0, 0)
  /\ UNCHANGED <<now, channel, cfg, processed, tasks, delivered, attempts, sent, sent_times, denied>>

LimiterQuery ==
  /\ last' = Step(IF can_perform_action(rl_actions, now, cfg.max_comments_per_hour)
                    THEN "can" ELSE "cannot", 0, 0)
  /\ UNCHANGED <<now, channel, cfg, processed, rl_actions, tasks, delivered, attempts, sent, sent_times, denied>>

LimiterNext ==
  \/ \E d \in TickSteps : Tick(d)
  \/ LimiterRecord
  \/ LimiterQuery

LimiterSpec == Init /\ [][LimiterNext]_vars

\* ------------------------------------------------ Config.validate on its own
ConfigInit ==
  /\ now = StartTime
  /\ channel = [i \in MsgIds |-> NoMsg]
  /\ cfg \in CandidateConfigs
  /\ processed = {}
  /\ rl_actions = <<>>
  /\ tasks = EmptyBag
  /\ delivered = 0
  /\ attempts = [i \in MsgIds |-> 0]
  /\ sent = [i \in MsgIds |-> 0]
  /\ sent_times = <<>>
  /\ denied = {}
  /\ last = Step("none", 0, 0)

\* validate() is called on the configuration that was loaded
ValidateConfig ==
  /\ last.op = "none"
  /\ last' = Step(IF validate(cfg) THEN "valid" ELSE "invalid", 0, 0)
  /\ UNCHANGED <<now, channel, cfg, processed, rl_actions, tasks, delivered, attempts, sent, sent_times, denied>>

ConfigSpec == ConfigInit /\ [][ValidateConfig]_vars

\* ------------------------------------------------------------ observers
Capacity == cfg.max_comments_per_hour

\* records the invariant of the data model counts: timestamp > now - window
RecentRecords == Len(SelectSeq(rl_actions, LAMBDA ts : ts > now - TimeWindow))

RECURSIVE Total(_, _)
Total(f, S) == IF S = {} THEN 0
               ELSE LET i == CHOOSE x \in S : TRUE IN f[i] + Total(f, S \ {i})

At(p) == {t \in Running : t.pc = p}

InFlight(p) == BagCardinality([t \in At(p) |-> tasks[t]])

\* events admitted by the limiter so far
AdmittedSoFar == Total(attempts, MsgIds) + InFlight("sleep")

\* every dispatch that has returned so far transmitted its reply
AllSentSoFar == Total(attempts, MsgIds) = Total(sent, MsgIds) + InFlight("sending")

\* the limiter's window has covered the whole run so far
WindowCoversRun == now - StartTime < TimeWindow

\* every update delivered so far was an eligible one: no two with the same
\* id, none from the account itself, none stale, none lost to a get_me error
EligibleRunSoFar ==
  /\ delivered = Cardinality(processed) + BagCardinality(tasks)
  /\ \A i \in processed : attempts[i] >= 1 \/ i \in denied
  /\ \A t \in Running :
        /\ tasks[t] = 1
        /\ t.msg.id \notin processed
        /\ t.msg.sender_id # MeId
        /\ ~(t.msg.date < now - StaleSeconds)
        /\ \A u \in Running : u.msg.id = t.msg.id => u = t

TypeOK ==
  /\ now \in Nat
  /\ processed \subseteq MsgIds
  /\ denied \subseteq processed
  /\ \A t \in Running : t.pc \in {"get_me", "sleep", "sending", "flood_sleep"}
  /\ BagCardinality(tasks) <= NumHandlers

\* ------------------------------------------------------------------ claims

\* C1: for every event id, over every interleaving of deliveries (a duplicate
\* may arrive while the first delivery is in its delay or its dispatch), the
\* reply dispatcher _post_comment is invoked at most once for that id.
C1_AtMostOneDispatchPerId == \A i \in MsgIds : attempts[i] <= 1

\* C2: in every reachable state the number of rate-limiter records with
\* timestamp > now - window_duration is at most the capacity.
C2_WindowCountAtMostCapacity == RecentRecords <= Capacity

\* C3: an action is recorded in the rate limiter only for a dispatch whose
\* outcome was Sent; a dispatch ending in FloodWaitError, ChatWriteForbiddenError,
\* UserRestrictedError or any other exception leaves the records unchanged.
C3_RecordOnlyIfSent == [][rl_actions' # rl_actions => last'.op = "Sent"]_vars

\* C4: while the window covers the whole run, the events that arrive are
\* eligible (non-duplicate, non-stale, not self-authored) and every dispatch
\* succeeds, exactly the first Capacity events are admitted (and get a sent
\* reply); every later event is skipped by the rate limiter and marked
\* processed without a dispatch attempt.
C4_FirstCapacityEventsOnly ==
  [][(last'.op \in {"admitted", "denied"} /\ WindowCoversRun /\ AllSentSoFar
        /\ EligibleRunSoFar)
       => /\ last'.op = "admitted" <=> AdmittedSoFar < Capacity
          /\ last'.op = "denied" =>
                last'.id \in processed' /\ attempts' = attempts]_vars

\* the same statement for events handled one at a time: the deciding handler
\* is the only one in flight
C4_Serial ==
  [][(last'.op \in {"admitted", "denied"} /\ WindowCoversRun /\ AllSentSoFar
        /\ EligibleRunSoFar /\ BagCardinality(tasks) = 1)
       => /\ last'.op = "admitted" <=> AdmittedSoFar < Capacity
          /\ last'.op = "denied" =>
                last'.id \in processed' /\ attempts' = attempts]_vars

Failures == {"ChatWriteForbiddenError", "UserRestrictedError",
             "MessageNotModifiedError", "Exception", "flood_done"}

\* C5: every event that reaches the dispatch step (_post_comment awaiting
\* send_message) is eventually in processed_messages, whatever the outcome of
\* the dispatch, provided the sleeps complete.
C5_DispatchedEventuallyProcessed ==
  \A i \in MsgIds :
    (\E t \in Running : t.pc = "sending" /\ t.msg.id = i) ~> (i \in processed)

\* a dispatch that failed has returned and its id is in the ledger
C5_Witness == last.op \in Failures /\ last.id \in processed

\* C6: an id that is in processed_messages stays there in every later state.
C6_LedgerOnlyGrows == [][processed \subseteq processed']_vars

\* an id is still in the ledger a whole window after it was inserted
C6_Witness ==
  /\ processed # {}
  /\ last.op = "tick"
  /\ now >= StartTime + TimeWindow

\* C7: an event that is not from the account itself is suppressed as stale
\* exactly when its age now - date exceeds 300 seconds at the staleness test;
\* a suppressed event gets no dispatch attempt, an event of age 300 or less
\* goes on to the rate-limit check.
C7_StaleIffOlderThanThreshold ==
  [][last'.op \in {"stale", "denied", "admitted"}
       => /\ last'.op = "stale" <=> last'.age > StaleSeconds
          /\ last'.op = "stale" =>
                /\ attempts' = attempts
                /\ BagCardinality(tasks') = BagCardinality(tasks) - 1]_vars

\* an event of age 301 has been suppressed without a dispatch attempt
C7_Witness ==
  /\ last.op = "stale"
  /\ last.age = StaleSeconds + 1
  /\ attempts[last.id] = 0

\* C8: handling a stale event adds its id to the ledger, makes no dispatch
\* attempt and leaves the rate limiter's records as they are, whether or not
\* the limiter has free capacity: the staleness test comes first.
C8_StaleBeforeRateLimit ==
  [][(last'.op \in {"stale", "denied", "admitted"} /\ last'.age > StaleSeconds)
       => /\ last'.op = "stale"
          /\ processed' = processed \cup {last'.id}
          /\ rl_actions' = rl_actions
          /\ attempts' = attempts
          /\ sent' = sent
          /\ denied' = denied
          /\ BagCardinality(tasks') = BagCardinality(tasks) - 1]_vars

\* a stale event has been suppressed while the limiter had no free capacity
C8_Witness ==
  /\ last.op = "stale"
  /\ last.id \in processed
  /\ ~can_perform_action(rl_actions, now, Capacity)

\* C9: an event the rate limiter denies is marked processed with no delay,
\* no dispatch attempt and no rate-limiter record, and its id is never
\* dispatched afterwards.
C9_DeniedNeverDispatched ==
  [][/\ last'.op = "denied" =>
          /\ last'.id \in processed'
          /\ rl_actions' = rl_actions
          /\ attempts' = attempts
          /\ BagCardinality(tasks') = BagCardinality(tasks) - 1
     /\ last'.op = "dispatch" => last'.id \notin denied]_vars

\* C10: receiving an event whose id is in processed_messages changes neither
\* the ledger, the limiter's records nor the replies sent, and starts no
\* handler, delay or dispatch.
C10_DuplicateHasNoEffect ==
  [][(last'.op \in {"dup", "received"} /\ last'.id \in processed)
       => /\ last'.op = "dup"
          /\ processed' = processed
          /\ rl_actions' = rl_actions
          /\ tasks' = tasks
          /\ attempts' = attempts
          /\ sent' = sent]_vars

\* an event whose id is in the ledger has been received and dropped
C10_Witness == last.op = "dup" /\ last.id \in processed

Decisions == {"self", "stale", "denied", "admitted"}

\* C11: an event whose sender_id is the account's own id is dropped at the
\* self check, whatever its age and whatever the limiter holds: its id is not
\* added to processed_messages, the limiter's records are unchanged, and no
\* delay or dispatch is started for it.
C11_SelfAuthoredFilteredOut ==
  [][(last'.op \in Decisions /\ channel[last'.id].sender_id = MeId)
       => /\ last'.op = "self"
          /\ processed' = processed
          /\ rl_actions' = rl_actions
          /\ attempts' = attempts
          /\ sent' = sent
          /\ denied' = denied
          /\ BagCardinality(tasks') = BagCardinality(tasks) - 1]_vars

\* a stale event of the account itself has been dropped, unmarked, while the
\* limiter had no free capacity
C11_Witness ==
  /\ last.op = "self"
  /\ last.age > StaleSeconds
  /\ last.id \notin processed
  /\ attempts[last.id] = 0
  /\ ~can_perform_action(rl_actions, now, Capacity)

\* some dispatch so far has ended, or is pausing, without a reply sent
FailedSoFar == Total(attempts, MsgIds) > Total(sent, MsgIds) + InFlight("sending")

\* C12: whatever send_message raises, _post_comment returns normally (the
\* handler goes on to line 194, or is in the pause of the FloodWaitError
\* branch) and no exception reaches the handler's own except clause; and
\* after a failed dispatch an event the limiter admits is still delayed and
\* then dispatched.
C12_FailureContained ==
  /\ [][InFlight("sending")' < InFlight("sending")
          => /\ last'.op \in Outcomes
             /\ last'.op = "FloodWaitError" \/ last'.id \in processed'
             /\ BagCardinality(tasks') >= BagCardinality(tasks) - 1]_vars
  /\ \A i \in MsgIds :
        (FailedSoFar /\ \E t \in Running : t.pc = "sleep" /\ t.msg.id = i)
          ~> (attempts[i] >= 1)

\* after a dispatch that failed for one event, another event has been
\* admitted, delayed and dispatched
C12_Witness ==
  /\ last.op = "dispatch"
  /\ \E i \in processed :
        i # last.id /\ attempts[i] = 1 /\ sent[i] = 0 /\ i \notin denied

\* the handlers of message i that are at the await p
InFlightFor(p, i) ==
  BagCardinality([t \in {u \in At(p) : u.msg.id = i} |-> tasks[t]])

\* C13: send_message is awaited once per _post_comment call and never again
\* for the same call: a handler starts awaiting it only as a new dispatch
\* attempt, a reply is transmitted exactly by an attempt whose outcome is
\* Sent (one reply), every other outcome transmits none, and so the replies
\* transmitted for an id never exceed its attempts that are neither pending
\* nor throttled.
C13_OneSendPerAttempt ==
  /\ [](\A i \in MsgIds :
          sent[i] + InFlightFor("sending", i) + InFlightFor("flood_sleep", i)
            <= attempts[i])
  /\ [][/\ InFlight("sending")' > InFlight("sending")
            => /\ last'.op = "dispatch"
               /\ attempts' = [attempts EXCEPT ![last'.id] = @ + 1]
        /\ sent' # sent
            => /\ last'.op = "Sent"
               /\ sent' = [sent EXCEPT ![last'.id] = @ + 1]
               /\ InFlight("sending")' = InFlight("sending") - 1
        /\ last'.op = "Sent" => sent' # sent
        /\ last'.op \in (Outcomes \ {"Sent"}) \cup {"flood_done", "error"}
            => sent' = sent /\ attempts' = attempts]_vars

\* one attempt has ended without a reply, and the attempt for another event
\* has just transmitted its one reply
C13_Witness ==
  /\ last.op = "Sent"
  /\ attempts[last.id] = 1
  /\ sent[last.id] = 1
  /\ \E i \in processed :
        i # last.id /\ attempts[i] = 1 /\ sent[i] = 0

\* the records kept whose timestamp lies in [now - window, now]
WindowCount ==
  Cardinality({k \in 1..Len(rl_actions) :
                 rl_actions[k] >= now - TimeWindow /\ rl_actions[k] <= now})

\* C14: at every query of the limiter, by the handler (line 180) or by any
\* other caller, can_perform_action() is false iff the number of records in
\* [now - window, now] equals the capacity, and true iff it is strictly less;
\* records older than the window do not count.
C14_DeniesIffCountEqualsCapacity ==
  [][last'.op \in {"can", "cannot", "denied", "admitted"}
       => /\ last'.op \in {"cannot", "denied"} <=> WindowCount = Capacity
          /\ last'.op \in {"can", "admitted"} <=> WindowCount < Capacity]_vars

\* C15: the steps of a handler come in the order dedup check, staleness
\* check, rate-limit check, delay, dispatch, mark-processed and record: a
\* handler is started only for an id not in the ledger; an event is admitted
\* only from the get_me await, when it is not stale and the limiter has room,
\* and its delay ends strictly later; _post_comment is called only by a handler
\* whose delay has fully elapsed; and outside the stale and denied exits the
\* ledger and the limiter change only once the dispatch of that id has ended.
C15_StepsInOrder ==
  [][/\ last'.op = "received" =>
          /\ last'.id \notin processed
          /\ InFlight("get_me")' = InFlight("get_me") + 1
     /\ last'.op = "admitted" =>
          /\ \E t \in Running : t.pc = "get_me" /\ t.msg.id = last'.id
          /\ last'.age <= StaleSeconds
          /\ can_perform_action(rl_actions, now, Capacity)
          /\ processed' = processed /\ rl_actions' = rl_actions
          /\ \E u \in BagToSet(tasks') :
                u.pc = "sleep" /\ u.msg.id = last'.id /\ u.wake > now
     /\ last'.op = "dispatch" =>
          /\ \E t \in Running :
                t.pc = "sleep" /\ t.msg.id = last'.id /\ now >= t.wake
          /\ processed' = processed /\ rl_actions' = rl_actions
     /\ InFlight("sending")' > InFlight("sending") => last'.op = "dispatch"
     /\ ((processed' # processed \/ rl_actions' # rl_actions)
            /\ last'.op \notin {"stale", "denied"}) =>
          /\ last'.op \in Outcomes \cup {"flood_done"}
          /\ attempts[last'.id] >= 1
          /\ \E t \in Running :
                t.pc \in {"sending", "flood_sleep"} /\ t.msg.id = last'.id]_vars

\* an event has gone through all the steps: admitted, delayed, dispatched,
\* then marked and recorded
C15_Witness ==
  /\ last.op = "Sent"
  /\ last.id \in processed
  /\ attempts[last.id] = 1
  /\ rl_actions # <<>>
  /\ rl_actions[Len(rl_actions)] = now
  /\ now >= StartTime + cfg.comment_delay_min

\* C16: the delay drawn for an admitted event is a whole number of seconds d
\* with comment_delay_min <= d <= comment_delay_max: the sleep started at the
\* admission ends d seconds later, and _post_comment is not called before
\* that sleep has ended. (The upper bound is on the sleep asked for; how soon
\* after it the event loop resumes the handler is left open.)
C16_DelayWithinBounds ==
  [][/\ last'.op = "admitted" =>
          /\ \E u \in BagToSet(tasks') : CopiesIn(u, tasks') > CopiesIn(u, tasks)
          /\ \A u \in BagToSet(tasks') :
                CopiesIn(u, tasks') > CopiesIn(u, tasks) =>
                  /\ u.pc = "sleep"
                  /\ u.msg.id = last'.id
                  /\ u.wake - now \in Nat
                  /\ u.wake - now >= cfg.comment_delay_min
                  /\ u.wake - now <= cfg.comment_delay_max
     /\ last'.op = "dispatch" =>
          \E t \in Running :
            /\ t.pc = "sleep" /\ t.msg.id = last'.id
            /\ CopiesIn(t, tasks') < CopiesIn(t, tasks)
            /\ now >= t.wake]_vars

\* both ends of the range are drawn: a first event, admitted when monitoring
\* started, was dispatched and recorded comment_delay_min seconds later, and
\* the event admitted now sleeps for comment_delay_max seconds
C16_Witness ==
  /\ last.op = "admitted"
  /\ cfg.comment_delay_max > cfg.comment_delay_min
  /\ rl_actions # <<>>
  /\ rl_actions[1] = StartTime + cfg.comment_delay_min
  /\ \E t \in Running :
        t.pc = "sleep" /\ t.msg.id = last.id /\ t.wake = now + cfg.comment_delay_max

\* a handler is suspended in asyncio.sleep and the sleep has not ended
Sleeping(t) == t.pc \in {"sleep", "flood_sleep"} /\ t.wake > now

\* C17: while a handler is suspended in its delay or in a FloodWaitError
\* pause, another update can be delivered and its handler can go through the
\* dedup, self, staleness and rate-limit steps; those steps leave the
\* suspended handler as it is, so several handlers are in flight at once.
C17_DelaySuspendsOnlyItsHandler ==
  /\ []((/\ \E t \in Running : Sleeping(t)
          /\ delivered < MaxDeliveries
          /\ BagCardinality(tasks) < NumHandlers)
        => ENABLED (\E id \in MsgIds, s \in SenderIds, a \in Ages : Receive(id, s, a)))
  /\ []((\E t, u \in Running : Sleeping(t) /\ u.pc = "get_me")
        => ENABLED (\E u \in Running : AfterGetMe(u)))
  /\ [][last'.op \in {"received", "dup"} \cup Decisions
          => \A t \in Running :
               Sleeping(t) => CopiesIn(t, tasks') >= CopiesIn(t, tasks)]_vars

\* while the handler of one event is still in its delay, another event has
\* been received, checked and admitted, and is in its own delay
C17_Witness ==
  /\ last.op = "admitted"
  /\ \E t, u \in Running :
        /\ t.msg.id # u.msg.id
        /\ Sleeping(t) /\ t.pc = "sleep"
        /\ Sleeping(u) /\ u.pc = "sleep" /\ u.msg.id = last.id

\* C18: when send_message raises FloodWaitError with e.seconds = N, the
\* handler is suspended until N seconds later, and nothing is marked, recorded
\* or sent at that step; _post_comment returns to the handler, which then
\* marks the id processed, only when those N seconds have passed; and the
\* throttled dispatch transmits no reply, neither at the error nor after the
\* pause.
C18_ThrottlePauseBeforeReturn ==
  [][/\ last'.op = "FloodWaitError" =>
          /\ processed' = processed
          /\ rl_actions' = rl_actions
          /\ sent' = sent
          /\ \E u \in BagToSet(tasks') : CopiesIn(u, tasks') > CopiesIn(u, tasks)
          /\ \A u \in BagToSet(tasks') :
                CopiesIn(u, tasks') > CopiesIn(u, tasks) =>
                  /\ u.pc = "flood_sleep"
                  /\ u.msg.id = last'.id
                  /\ u.wake - now \in FloodSeconds
     /\ InFlight("flood_sleep")' < InFlight("flood_sleep") =>
          /\ last'.op = "flood_done"
          /\ \E t \in Running :
                /\ t.pc = "flood_sleep" /\ t.msg.id = last'.id
                /\ CopiesIn(t, tasks') < CopiesIn(t, tasks)
                /\ now >= t.wake
          /\ last'.id \in processed'
          /\ sent' = sent
          /\ attempts' = attempts
          /\ BagCardinality(tasks') = BagCardinality(tasks) - 1]_vars

\* a throttled dispatch has returned after its pause: the id is in the
\* ledger and no reply was sent for it
C18_Witness ==
  /\ last.op = "flood_done"
  /\ last.id \in processed
  /\ attempts[last.id] = 1
  /\ sent[last.id] = 0
  /\ \E n \in FloodSeconds : now >= StartTime + cfg.comment_delay_min + n

\* the conditions the claim lists; a value counts as set when it is neither
\* None nor empty nor zero
Acceptable(c) ==
  /\ c.api_id \notin {<<>>, <<0>>}
  /\ c.api_hash \notin {<<>>, <<"">>}
  /\ c.target_channel \notin {<<>>, <<"">>}
  /\ c.comment_messages # <<>>
  /\ c.comment_delay_min >= 1
  /\ c.comment_delay_max >= c.comment_delay_min
  /\ c.max_comments_per_hour >= 1

\* C19: Config.validate() returns True iff api_id, api_hash and
\* target_channel are set, comment_messages is non-empty, comment_delay_min >= 1,
\* comment_delay_max >= comment_delay_min and max_comments_per_hour >= 1; so it
\* returns False whenever the capacity is below 1 or the maximum delay is
\* below the minimum, and it leaves the configuration as it is.
C19_ValidateIffAcceptable ==
  [][last'.op \in {"valid", "invalid"}
       => /\ last'.op = "valid" <=> Acceptable(cfg)
          /\ cfg.max_comments_per_hour < 1 => last'.op = "invalid"
          /\ cfg.comment_delay_max < cfg.comment_delay_min => last'.op = "invalid"
          /\ cfg' = cfg]_vars

\* a configuration whose maximum delay equals its minimum has been accepted
C19_Witness ==
  /\ last.op = "valid"
  /\ cfg.comment_delay_max = cfg.comment_delay_min
  /\ cfg.max_comments_per_hour = 1

\* the replies transmitted in the trailing window [now - window, now]
SentInWindow ==
  Cardinality({k \in 1..Len(sent_times) :
                 sent_times[k] >= now - TimeWindow /\ sent_times[k] <= now})

\* C20: when every handler runs to completion before the next update is
\* received, the number of replies transmitted within the trailing window
\* [now - window, now] is at most the capacity in every reachable state,
\* whatever the events and the outcomes of the dispatches.
C20_SerialSentAtMostCapacity == SentInWindow <= Capacity

\* the replies sent in the window have reached the capacity, and the next
\* eligible event has been denied
C20_Witness ==
  /\ SentInWindow = Capacity
  /\ last.op = "denied"
  /\ attempts[last.id] = 0
====
